---- MODULE Spec2Model ----
(***************************************************************************)
(* Model of goimghash: the DoubleGradient hash (double_gradient.go) and    *)
(* the similarity clustering loop of the batch command                     *)
(* (findSimilarImages).                                                     *)
(*                                                                         *)
(* A uint64 word is modelled as the set of the positions (0..63) of its    *)
(* one bits: w | 1<<p is w \cup {p}, popcount(a ^ b) is the size of the     *)
(* symmetric difference.  Go slices are 0-based; the sequences here are   *)
(* 1-based, so Go index k is index k+1 below.                              *)
(***************************************************************************)
EXTENDS Integers, Sequences, FiniteSets, TLC

VARIABLES
    \* ---- findSimilarImages
    hashType,   \* the --type flag, fixed for one run
    threshold,  \* the --threshold flag
    images,     \* []ImageInfo, the records whose hash was computed
    processed,  \* map[int]bool
    groups,     \* [][]ImageInfo
    group,      \* []ImageInfo of the outer iteration in progress
    i,          \* outer loop index
    j,          \* inner loop index
    pc,         \* position in findSimilarImages
    seeds,      \* history: the indices that started a group, in order
    scanned,    \* history: the inner iterations that got past the
                \* i == j / processed[j] test, with what became of each
    \* ---- DoubleGradientHash / bitsToBytes / ToBase64
    width,      \* argument width
    height,     \* argument height
    img,        \* argument img: its bounds and its pixels
    gray,       \* grayImg.Pix, by coordinate
    err,        \* the error DoubleGradientHash returns
    pixels,     \* []uint8 of the resized grayscale image, row-major
    hashBits,   \* []bool
    bitIdx,     \* bitsToBytes: index of the next bit of the range loop
    result,     \* bitsToBytes: result
    currentWord,\* bitsToBytes: currentWord
    bitPos,     \* bitsToBytes: bitPos
    extHash,    \* *ExtImageHash
    encoded,    \* result of ToBase64, a sequence of characters
    dpc         \* position in DoubleGradientHashToBase64

vars == <<hashType, threshold, images, processed, groups, group, i, j, pc, seeds,
          scanned, width, height, img, gray, err, pixels, hashBits, bitIdx, result,
          currentWord, bitPos, extHash, encoded, dpc>>

clusterVars == <<hashType, threshold, images, processed, groups, group, i, j, pc, seeds,
                 scanned>>

hashVars == <<width, height, img, gray, err, pixels, hashBits, bitIdx, result,
              currentWord, bitPos, extHash, encoded, dpc>>

packVars == <<bitIdx, result, currentWord, bitPos>>

(***************************************************************************)
(* Bounds                                                                  *)
(***************************************************************************)
MaxImages == 4

MaxDim == 3

MaxPix == 1

MaxBits == 130

MaxSrcDim == 1

MaxOrigin == 1

\* bits per payload word (uint64)
WordBits == 64

\* Values of the --threshold flag tried (its default is 10; the payloads of
\* HashPool differ in at most 6 bits)
Thresholds == {0, 3}

NoHash == [kind |-> "nil"]

\* Kinds of the hash library
AHash == "AHash"

DHash == "DHash"

DGHash == "DGHash"

(***************************************************************************)
(* Hash payloads used for the records of a batch run: words over the bit   *)
(* positions 0..5, with pairwise Hamming distances 0..6.                   *)
(***************************************************************************)
HashPool == { {}, {0}, {0, 1, 2}, {3, 4, 5}, {0, 1, 2, 3, 4, 5} }

HashTypes == {"average", "dgrad"}

\* popcount(a ^ b) of two uint64 words
Popcnt(a, b) == Cardinality((a \ b) \cup (b \ a))

RECURSIVE SumHamming(_, _, _)
SumHamming(l, r, idx) ==
    IF idx > Len(l) THEN 0
    ELSE Popcnt(l[idx], r[idx]) + SumHamming(l, r, idx + 1)

\* (*ImageHash).Distance: kinds must agree; Hamming weight of the xor
ImageHashDistance(a, b) ==
    IF a.kind # b.kind THEN [err |-> TRUE, distance |-> -1]
    ELSE [err |-> FALSE, distance |-> Popcnt(a.hash, b.hash)]

\* (*ExtImageHash).Distance: kinds and bit counts must agree
ExtImageHashDistance(a, b) ==
    IF a.kind # b.kind \/ a.bits # b.bits THEN [err |-> TRUE, distance |-> -1]
    ELSE [err |-> FALSE, distance |-> SumHamming(a.hash, b.hash, 1)]

\* computeHash: the kind of the ImageHash built for a --hash-type value
computeHashKind(ht) == IF ht = "difference" THEN DHash ELSE AHash

\* The hashing switch of findSimilarImages: one ImageInfo per loaded image
\* (DoubleGradientHash(img, 8, 8) has 5*4 + 5*4 = 40 bits in one word; an
\* ImageHash is one uint64)
MkImageInfo(path, ht, w) ==
    IF ht = "dgrad"
    THEN [Path |-> path, Hash |-> NoHash,
          ExtHash |-> [kind |-> DGHash, bits |-> 40, hash |-> <<w>>], IsExt |-> TRUE]
    ELSE [Path |-> path, Hash |-> [kind |-> computeHashKind(ht), hash |-> w],
          ExtHash |-> NoHash, IsExt |-> FALSE]

\* The distance computed for a pair of records of equal IsExt
PairDistance(img1, img2) ==
    IF img1.IsExt THEN ExtImageHashDistance(img1.ExtHash, img2.ExtHash)
    ELSE ImageHashDistance(img1.Hash, img2.Hash)

WithinThresholdStrict(distance, t) == distance < t

\* if distance <= threshold
WithinThreshold(distance, t) == distance <= t

JoinsAlways(img1, img2, t) == TRUE

\* Body of the inner loop after the i == j / processed[j] test: whether img2
\* is appended to the group of img1
Joins(img1, img2, t) ==
    /\ img1.IsExt = img2.IsExt
    /\ ~PairDistance(img1, img2).err
    /\ WithinThreshold(PairDistance(img1, img2).distance, t)

\* What one inner iteration does with img2 once past the i == j /
\* processed[j] test: "kind" (IsExt differs, no distance computed), "error"
\* (Distance returned an error), "joined" or "far"
Outcome(img1, img2, t) ==
    IF img1.IsExt # img2.IsExt THEN "kind"
    ELSE IF PairDistance(img1, img2).err THEN "error"
    ELSE IF Joins(img1, img2, t) THEN "joined"
    ELSE "far"

\* the history entry of one inner iteration
Scan(seed, rec, t) ==
    [seed |-> seed, rec |-> rec, outcome |-> Outcome(images[seed], images[rec], t)]

KeepGroupAlways(g) == Len(g) >= 1

\* if len(group) > 1
KeepGroup(g) == Len(g) > 1

N == Len(images)

\* The hash payloads of a batch, in input order: every sequence of up to
\* MaxImages payloads of HashPool, and every ordering of the whole pool (a
\* batch of pairwise distinct images)
BatchHashes ==
    UNION {[1..n -> HashPool] : n \in 0..MaxImages}
    \cup {hs \in [1..Cardinality(HashPool) -> HashPool] :
             \A a, b \in 1..Cardinality(HashPool) : a # b => hs[a] # hs[b]}

\* no image (a nil image.Image)
NoImage == [minX |-> 0, minY |-> 0, dx |-> 0, dy |-> 0, pix |-> <<>>]

\* no DoubleGradientHash call in progress
HashIdle ==
    /\ width = 0
    /\ height = 0
    /\ img = NoImage
    /\ gray = <<>>
    /\ err = "unset"
    /\ pixels = <<>>
    /\ hashBits = <<>>
    /\ bitIdx = 1
    /\ result = <<>>
    /\ currentWord = {}
    /\ bitPos = 0
    /\ extHash = NoHash
    /\ encoded = <<>>
    /\ dpc = "idle"

(***************************************************************************)
(* findSimilarImages, the clustering loop                                  *)
(***************************************************************************)
ClusterInit ==
    /\ hashType \in HashTypes
    /\ threshold \in Thresholds
    /\ \E hs \in BatchHashes :
          images = [k \in 1..Len(hs) |-> MkImageInfo(k, hashType, hs[k])]
    /\ processed = [k \in 1..Len(images) |-> FALSE]
    /\ groups = <<>>
    /\ group = <<>>
    /\ i = 1
    /\ j = 1
    /\ pc = "outer"
    /\ seeds = <<>>
    /\ scanned = <<>>
    /\ HashIdle

\* for i, img1 := range images { if processed[i] { continue }
OuterSkip ==
    /\ pc = "outer"
    /\ i <= N
    /\ processed[i]
    /\ i' = i + 1
    /\ UNCHANGED <<hashType, threshold, images, processed, groups, group, j, pc, seeds, scanned,
                   hashVars>>

OuterSeedUnmarked ==
    /\ pc = "outer"
    /\ i <= N
    /\ ~processed[i]
    /\ group' = <<images[i]>>
    /\ seeds' = Append(seeds, i)
    /\ j' = 1
    /\ pc' = "inner"
    /\ UNCHANGED <<hashType, threshold, images, processed, groups, i, scanned, hashVars>>

\* group = append(group, img1); processed[i] = true
OuterSeed ==
    /\ pc = "outer"
    /\ i <= N
    /\ ~processed[i]
    /\ group' = <<images[i]>>
    /\ processed' = [processed EXCEPT ![i] = TRUE]
    /\ seeds' = Append(seeds, i)
    /\ j' = 1
    /\ pc' = "inner"
    /\ UNCHANGED <<hashType, threshold, images, groups, i, scanned, hashVars>>

InnerStepChained ==
    /\ pc = "inner"
    /\ j <= N
    /\ IF i = j \/ processed[j]
       THEN UNCHANGED <<group, processed, scanned>>
       ELSE /\ scanned' = Append(scanned, Scan(i, j, threshold))
            /\ IF Joins(group[Len(group)], images[j], threshold)
               THEN /\ group' = Append(group, images[j])
                    /\ processed' = [processed EXCEPT ![j] = TRUE]
               ELSE UNCHANGED <<group, processed>>
    /\ j' = j + 1
    /\ UNCHANGED <<hashType, threshold, images, groups, i, pc, seeds, hashVars>>

InnerStepRescan ==
    /\ pc = "inner"
    /\ j <= N
    /\ IF i = j
       THEN UNCHANGED <<group, processed, scanned>>
       ELSE /\ scanned' = Append(scanned, Scan(i, j, threshold))
            /\ IF Joins(images[i], images[j], threshold)
               THEN /\ group' = Append(group, images[j])
                    /\ processed' = [processed EXCEPT ![j] = TRUE]
               ELSE UNCHANGED <<group, processed>>
    /\ j' = j + 1
    /\ UNCHANGED <<hashType, threshold, images, groups, i, pc, seeds, hashVars>>

InnerStepMarkSkipped ==
    /\ pc = "inner"
    /\ j <= N
    /\ IF i = j \/ processed[j]
       THEN UNCHANGED <<group, processed, scanned>>
       ELSE /\ scanned' = Append(scanned, Scan(i, j, threshold))
            /\ processed' = [processed EXCEPT ![j] = TRUE]
            /\ IF Joins(images[i], images[j], threshold)
               THEN group' = Append(group, images[j])
               ELSE UNCHANGED group
    /\ j' = j + 1
    /\ UNCHANGED <<hashType, threshold, images, groups, i, pc, seeds, hashVars>>

\* one iteration of: for j, img2 := range images { ... }
InnerStep ==
    /\ pc = "inner"
    /\ j <= N
    /\ IF i = j \/ processed[j]
       THEN UNCHANGED <<group, processed, scanned>>
       ELSE /\ scanned' = Append(scanned, Scan(i, j, threshold))
            /\ IF Joins(images[i], images[j], threshold)
               THEN /\ group' = Append(group, images[j])
                    /\ processed' = [processed EXCEPT ![j] = TRUE]
               ELSE UNCHANGED <<group, processed>>
    /\ j' = j + 1
    /\ UNCHANGED <<hashType, threshold, images, groups, i, pc, seeds, hashVars>>

InnerDonePrepend ==
    /\ pc = "inner"
    /\ j > N
    /\ groups' = IF KeepGroup(group) THEN <<group>> \o groups ELSE groups
    /\ group' = <<>>
    /\ i' = i + 1
    /\ pc' = "outer"
    /\ UNCHANGED <<hashType, threshold, images, processed, j, seeds, scanned, hashVars>>

\* end of the inner loop: if len(group) > 1 { groups = append(groups, group) }
InnerDone ==
    /\ pc = "inner"
    /\ j > N
    /\ groups' = IF KeepGroup(group) THEN Append(groups, group) ELSE groups
    /\ group' = <<>>
    /\ i' = i + 1
    /\ pc' = "outer"
    /\ UNCHANGED <<hashType, threshold, images, processed, j, seeds, scanned, hashVars>>

\* the outer loop ends
OuterDone ==
    /\ pc = "outer"
    /\ i > N
    /\ pc' = "done"
    /\ UNCHANGED <<hashType, threshold, images, processed, groups, group, i, j, seeds, scanned,
                   hashVars>>

ClusterNext ==
    \/ OuterSkip
    \/ OuterSeed
    \/ InnerStep
    \/ InnerDone
    \/ OuterDone

SpecCluster == ClusterInit /\ [][ClusterNext]_vars

(***************************************************************************)
(* The clustering loop on any slice of ImageInfo records.  Each record is  *)
(* one the hashing switch builds under some --hash-type, but the records   *)
(* of one slice need not come from the same --hash-type: this is the input *)
(* on which the IsExt test and the Distance error test of the inner loop   *)
(* have an effect.  (findSimilarImages itself hashes a whole batch under   *)
(* one --hash-type.)                                                       *)
(***************************************************************************)
MaxMixed == 4

MixedTypes == {"average", "difference", "dgrad"}

MixedPool == { {}, {0, 1, 2} }

MixedInit ==
    /\ hashType = "average"
    /\ threshold \in Thresholds
    /\ \E n \in 0..MaxMixed :
          \E hts \in [1..n -> MixedTypes], hs \in [1..n -> MixedPool] :
             images = [k \in 1..n |-> MkImageInfo(k, hts[k], hs[k])]
    /\ processed = [k \in 1..Len(images) |-> FALSE]
    /\ groups = <<>>
    /\ group = <<>>
    /\ i = 1
    /\ j = 1
    /\ pc = "outer"
    /\ seeds = <<>>
    /\ scanned = <<>>
    /\ HashIdle

SpecMixed == MixedInit /\ [][ClusterNext]_vars

(***************************************************************************)
(* Properties of the clustering loop                                       *)
(***************************************************************************)
\* the Hamming distance of records a and b (indices into images)
Dist(a, b) == PairDistance(images[a], images[b]).distance

\* records a and b are compatible and within the threshold of each other
Near(a, b) ==
    /\ images[a].IsExt = images[b].IsExt
    /\ LET d == PairDistance(images[a], images[b])
       IN  ~d.err /\ d.distance <= threshold

\* the output groups and the group in progress
AllGroups == {groups[g] : g \in 1..Len(groups)} \cup (IF group = <<>> THEN {} ELSE {group})

RECURSIVE Flatten(_, _)
Flatten(gs, g) == IF g > Len(gs) THEN <<>> ELSE gs[g] \o Flatten(gs, g + 1)

\* the input indices held by the slots of the output groups and of the group
\* in progress, one entry per slot
Slots == LET all == Flatten(groups, 1) \o group IN [a \in 1..Len(all) |-> all[a].Path]

Grouped == {Slots[a] : a \in 1..Len(Slots)}

SeedSet == {seeds[s] : s \in 1..Len(seeds)}

C1_Step ==
    (pc = "inner" /\ j <= N /\ j # i /\ ~processed[j]) =>
        IF Near(i, j)
        THEN group' = Append(group, images[j]) /\ processed'[j]
        ELSE group' = group /\ ~processed'[j]

C1_Members ==
    \A g \in AllGroups : \A a \in 2..Len(g) : Near(g[1].Path, g[a].Path)

C1_ExampleInput ==
    /\ N = 3
    /\ threshold = 3
    /\ Dist(1, 2) = 3
    /\ Dist(2, 3) = 3
    /\ Dist(1, 3) = 6

C1_Example ==
    (pc = "done" /\ C1_ExampleInput) => groups = << <<images[1], images[2]>> >>

\* C1: a record unconsumed when the seed's scan reaches it joins the seed's
\* group iff its distance to the seed is computed without error and is
\* <= threshold; so every non-seed member is within threshold of its seed, and
\* the input [A,B,C] with d(A,B)=3, d(B,C)=3, d(A,C)=6 and threshold 3 yields
\* exactly the one group [A,B].
C1_SeedDecidesMembership ==
    [][C1_Step]_vars /\ [](C1_Members /\ C1_Example)

C1_Witness ==
    pc = "done" /\ C1_ExampleInput /\ groups = << <<images[1], images[2]>> >>

\* C2 as stated: any two members of one output group are within the threshold
\* of each other.
C2_PairwiseWithinThreshold ==
    \A g \in AllGroups : \A a, b \in 1..Len(g) : Near(g[a].Path, g[b].Path)

\* C2 as amended: every member of an output group is within the threshold of
\* the group's seed (its first member), so any two members are within twice
\* the threshold of each other; two non-seed members need not be within the
\* threshold.
C2_WithinThresholdOfSeed ==
    \A g \in AllGroups : \A a, b \in 1..Len(g) :
        /\ (a = 1 \/ b = 1) => Near(g[a].Path, g[b].Path)
        /\ Dist(g[a].Path, g[b].Path) <= 2 * threshold

C2_Witness ==
    /\ pc = "done"
    /\ \E g \in AllGroups : \E a, b \in 2..Len(g) : ~Near(g[a].Path, g[b].Path)

C3_AtMostOneGroup ==
    /\ Cardinality(Grouped) = Len(Slots)
    /\ \A k \in Grouped : processed[k]

C3_ConsumedStays ==
    \A k \in 1..N :
        processed[k] =>
            /\ processed'[k]
            /\ group' # Append(group, images[k])
            /\ seeds' # Append(seeds, k)

C3_AllConsumedAtEnd ==
    pc = "done" =>
        \A k \in 1..N :
            /\ processed[k]
            /\ k \in Grouped \/ k \in SeedSet

\* C3: each record is consumed exactly once: a record is in at most one group
\* at any time, a consumed record is never added to a later group and never
\* becomes a seed, and at the end every record is consumed and is in exactly
\* one output group or was the seed of a dropped singleton.
C3_ConsumedExactlyOnce ==
    [][C3_ConsumedStays]_vars /\ [](C3_AtMostOneGroup /\ C3_AllConsumedAtEnd)

C3_Witness ==
    /\ pc = "done"
    /\ N >= MaxImages
    /\ \E k \in 1..N : k \in Grouped /\ k \notin SeedSet
    /\ \E k \in 1..N : k \notin Grouped /\ k \in SeedSet

C4_DropStep ==
    (pc = "inner" /\ j > N /\ Len(group) = 1) =>
        groups' = groups /\ processed'[i] /\ processed'[group[1].Path]

\* C4: every output group has at least two members; a seed whose scan adds
\* no record produces no output group and stays consumed.
C4_NoSingletonGroups ==
    [][C4_DropStep]_vars /\ [](\A g \in 1..Len(groups) : Len(groups[g]) >= 2)

C4_Witness ==
    /\ pc = "done"
    /\ groups # <<>>
    /\ \E k \in SeedSet : k \notin Grouped /\ processed[k]

\* C5: output groups are in the input order of their seeds; in each group the
\* seed is first and the other members follow in increasing input order.
C5_GroupOrder ==
    /\ \A g \in 1..(Len(groups) - 1) : groups[g][1].Path < groups[g + 1][1].Path
    /\ \A g \in AllGroups :
          /\ g[1].Path \in SeedSet
          /\ \A a \in 2..Len(g) : g[a].Path \notin SeedSet
          /\ \A a \in 2..(Len(g) - 1) : g[a].Path < g[a + 1].Path

C5_Witness ==
    /\ pc = "done"
    /\ Len(groups) >= 2
    /\ \E g \in 1..Len(groups) : Len(groups[g]) >= 3

\* C6: if no two records are within the threshold of each other, the loop
\* yields zero groups (stated as: any output group implies a near pair).
C6_NoNearPairNoGroups ==
    groups # <<>> => \E a, b \in 1..N : a # b /\ Near(a, b)

C6_Witness ==
    /\ pc = "done"
    /\ N = 5
    /\ \A a, b \in 1..N : a # b => images[a] # images[b] /\ Dist(a, b) > threshold
    /\ groups = <<>>

(***************************************************************************)
(* double_gradient.go                                                      *)
(***************************************************************************)
nextMultipleOf2Identity(x) == x

\* nextMultipleOf2 rounds up to the next multiple of 2
nextMultipleOf2(x) == IF x % 2 = 0 THEN x ELSE x + 1

\* resizeWidth := width/2 + 1 (and the same for the height)
ResizeDim(d) == nextMultipleOf2(d) \div 2 + 1

\* pixels[idx] of a 0-based []uint8
PixelAt(px, idx) == px[idx + 1]

\* color.Gray{Y}.RGBA(): r = Y | Y<<8
GrayRGBA(y) == y * 257

\* pixels[idx] = uint8(r >> 8)
ExtractPixel(y) == (GrayRGBA(y) \div 256) % 256

\* hashBits = append(hashBits, current > previous), horizontal pass
HGradientBit(current, previous) == current > previous

\* hashBits = append(hashBits, current > previous), vertical pass
VGradientBit(current, previous) == current > previous

\* for y := 0; y < height; y++ { for x := 1; x < width; x++ { ... } }
RECURSIVE HorizontalPass(_, _, _, _, _, _)
HorizontalPass(px, w, h, y, x, acc) ==
    IF y >= h THEN acc
    ELSE IF x >= w THEN HorizontalPass(px, w, h, y + 1, 1, acc)
    ELSE HorizontalPass(px, w, h, y, x + 1,
            Append(acc, HGradientBit(PixelAt(px, y * w + x), PixelAt(px, y * w + x - 1))))

\* for x := 0; x < width; x++ { for y := 1; y < height; y++ { ... } }
RECURSIVE VerticalPass(_, _, _, _, _, _)
VerticalPass(px, w, h, x, y, acc) ==
    IF x >= w THEN acc
    ELSE IF y >= h THEN VerticalPass(px, w, h, x + 1, 1, acc)
    ELSE VerticalPass(px, w, h, x, y + 1,
            Append(acc, VGradientBit(PixelAt(px, y * w + x), PixelAt(px, (y - 1) * w + x))))

doubleGradientHashBitsVerticalFirst(px, w, h) ==
    HorizontalPass(px, w, h, 0, 1, VerticalPass(px, w, h, 0, 1, <<>>))

\* doubleGradientHashBits: the horizontal pass, then the vertical pass
doubleGradientHashBits(px, w, h) ==
    VerticalPass(px, w, h, 0, 1, HorizontalPass(px, w, h, 0, 1, <<>>))

\* currentWord |= 1 << bitPos
SetBit(word, pos) == word \cup {pos}

\* if bitPos >= 64
WordFull(pos) == pos >= WordBits

PartialWordAlways(pos) == TRUE

\* if bitPos > 0, after the loop
PartialWord(pos) == pos > 0

\* NewExtImageHash(hash, kind, bits)
NewExtImageHash(hash, kind, bits) == [hash |-> hash, kind |-> kind, bits |-> bits]

Pow2(e) == 2 ^ e

\* byte(hashWord >> (i*8) & 0xFF)
WordByte(hashWord, b) ==
    LET bit(p) == IF (b * 8 + p) \in hashWord THEN Pow2(p) ELSE 0
    IN  bit(0) + bit(1) + bit(2) + bit(3) + bit(4) + bit(5) + bit(6) + bit(7)

\* the eight bytes of one word, least significant first
WordBytes(hashWord) == [b \in 1..8 |-> WordByte(hashWord, b - 1)]

RECURSIVE AllWordBytes(_, _)
AllWordBytes(hash, k) ==
    IF k > Len(hash) THEN <<>>
    ELSE WordBytes(hash[k]) \o AllWordBytes(hash, k + 1)

\* the alphabet of base64.StdEncoding
Alphabet ==
    << "A", "B", "C", "D", "E", "F", "G", "H", "I", "J", "K", "L", "M",
       "N", "O", "P", "Q", "R", "S", "T", "U", "V", "W", "X", "Y", "Z",
       "a", "b", "c", "d", "e", "f", "g", "h", "i", "j", "k", "l", "m",
       "n", "o", "p", "q", "r", "s", "t", "u", "v", "w", "x", "y", "z",
       "0", "1", "2", "3", "4", "5", "6", "7", "8", "9", "+", "/" >>

Enc(v) == Alphabet[(v % 64) + 1]

\* base64.RawStdEncoding.EncodeToString: three bytes to four characters, a
\* remainder of one or two bytes to two or three characters, no padding
RECURSIVE RawStdEncode(_, _)
RawStdEncode(src, k) ==
    LET rest == Len(src) - k + 1
    IN  IF rest <= 0 THEN <<>>
        ELSE IF rest >= 3
        THEN LET val == src[k] * 65536 + src[k + 1] * 256 + src[k + 2]
             IN  << Enc(val \div 262144), Enc(val \div 4096), Enc(val \div 64), Enc(val) >>
                 \o RawStdEncode(src, k + 3)
        ELSE IF rest = 2
        THEN LET val == src[k] * 65536 + src[k + 1] * 256
             IN  << Enc(val \div 262144), Enc(val \div 4096), Enc(val \div 64) >>
        ELSE LET val == src[k] * 65536
             IN  << Enc(val \div 262144), Enc(val \div 4096) >>

TruncateNever(hashBytes, bits) == hashBytes

\* if h.bits < len(hashBytes)*8 { hashBytes = hashBytes[:fullBytes] }
Truncate(hashBytes, bits) ==
    IF bits < Len(hashBytes) * 8
    THEN LET fullBytes == IF bits % 8 # 0 THEN bits \div 8 + 1 ELSE bits \div 8
         IN  SubSeq(hashBytes, 1, fullBytes)
    ELSE hashBytes

\* (*ExtImageHash).ToBase64
ToBase64(h) == RawStdEncode(Truncate(AllWordBytes(h.hash, 1), h.bits), 1)

ClusterIdle ==
    /\ hashType = "dgrad"
    /\ threshold = 0
    /\ images = <<>>
    /\ processed = <<>>
    /\ groups = <<>>
    /\ group = <<>>
    /\ i = 1
    /\ j = 1
    /\ pc = "idle"
    /\ seeds = <<>>
    /\ scanned = <<>>

\* img.Bounds(): the coordinates of the pixels of image s
Bounds(s) == (s.minX..(s.minX + s.dx - 1)) \X (s.minY..(s.minY + s.dy - 1))

\* img.At(x, y): the intensity at (x, y), the zero colour outside the bounds
\* (the source is taken as a grayscale image, so the conversion to
\* color.Gray keeps its intensity)
ImageAt(s, x, y) == IF <<x, y>> \in Bounds(s) THEN s.pix[<<x, y>>] ELSE 0

\* image.NewGray(img.Bounds()): every pixel zero
NewGray(s) == [c \in Bounds(s) |-> 0]

\* grayImg.Set(x, y, c): nothing outside the bounds
GraySet(s, g, x, y, c) == IF <<x, y>> \in Bounds(s) THEN [g EXCEPT ![<<x, y>>] = c] ELSE g

\* grayImg.Set(x, y, img.At(x, y)): the loop indices are the coordinates
LoopCoord(s, x, y) == <<x, y>>

\* for y := 0; y < Dy; y++ { for x := 0; x < Dx; x++ { grayImg.Set(...) } }
RECURSIVE GrayLoop(_, _, _, _)
GrayLoop(s, g, y, x) ==
    IF y >= s.dy THEN g
    ELSE IF x >= s.dx THEN GrayLoop(s, g, y + 1, 0)
    ELSE LET c == LoopCoord(s, x, y)
         IN  GrayLoop(s, GraySet(s, g, c[1], c[2], ImageAt(s, c[1], c[2])), y, x + 1)

\* resized.At(x, y) when resize.Resize returned grayImg itself
GrayAt(s, g, x, y) == IF <<x, y>> \in Bounds(s) THEN g[<<x, y>>] ELSE 0

\* a source image with its bounds at (0,0) that is larger than every sample
\* grid, as a decoded photo is; its content does not matter to the model,
\* the resampling filter being nondeterministic here
LargeSource ==
    LET d == ResizeDim(MaxDim) + 1
    IN  [minX |-> 0, minY |-> 0, dx |-> d, dy |-> d,
         pix |-> [c \in (0..(d - 1)) \X (0..(d - 1)) |-> 0]]

\* small source images: empty ones, and ones whose bounds do not start at (0,0)
SmallSources ==
    UNION { { [minX |-> mx, minY |-> my, dx |-> w, dy |-> h, pix |-> p] :
                p \in [(mx..(mx + w - 1)) \X (my..(my + h - 1)) -> 0..MaxPix] } :
            mx \in 0..MaxOrigin, my \in 0..MaxOrigin,
            w \in 0..MaxSrcDim, h \in 0..MaxSrcDim }

\* the state at a call DoubleGradientHashToBase64(img, width, height) on image s
CallInit(s) ==
    /\ width \in 0..MaxDim
    /\ height \in 0..MaxDim
    /\ img = s
    /\ gray = <<>>
    /\ err = "unset"
    /\ pixels = <<>>
    /\ hashBits = <<>>
    /\ bitIdx = 1
    /\ result = <<>>
    /\ currentWord = {}
    /\ bitPos = 0
    /\ extHash = NoHash
    /\ encoded = <<>>
    /\ dpc = "start"
    /\ ClusterIdle

\* a call DoubleGradientHashToBase64(img, width, height)
DGInit == CallInit(LargeSource)

\* a call on a small, possibly empty or offset, source image
SrcInit == \E s \in SmallSources : CallInit(s)

\* grayImg := image.NewGray(img.Bounds()) and the grayscale loop
DGGray ==
    /\ dpc = "start"
    /\ gray' = GrayLoop(img, NewGray(img), 0, 0)
    /\ dpc' = "gray"
    /\ UNCHANGED <<width, height, img, err, pixels, hashBits, packVars, extHash, encoded,
                   clusterVars>>

\* resize.Resize to resizeWidth x resizeHeight and the extraction of the
\* pixels.  Resize returns its argument when the source has no pixels or has
\* the size asked for already; otherwise the resampled intensities are
\* whatever the filter produces
DGResize ==
    /\ dpc = "gray"
    /\ LET rw == ResizeDim(width)
           rh == ResizeDim(height)
       IN  IF img.dx <= 0 \/ img.dy <= 0 \/ (img.dx = rw /\ img.dy = rh)
           THEN pixels' = [idx \in 1..(rw * rh) |->
                             ExtractPixel(GrayAt(img, gray, (idx - 1) % rw, (idx - 1) \div rw))]
           ELSE \E resized \in [1..(rw * rh) -> 0..MaxPix] :
                   pixels' = [idx \in 1..(rw * rh) |-> ExtractPixel(resized[idx])]
    /\ dpc' = "pixels"
    /\ UNCHANGED <<width, height, img, gray, err, hashBits, packVars, extHash, encoded, clusterVars>>

\* hashBits := doubleGradientHashBits(pixels, resizeWidth, resizeHeight)
DGBits ==
    /\ dpc = "pixels"
    /\ hashBits' = doubleGradientHashBits(pixels, ResizeDim(width), ResizeDim(height))
    /\ dpc' = "bits"
    /\ UNCHANGED <<width, height, img, gray, err, pixels, packVars, extHash, encoded, clusterVars>>

\* bitsToBytes: one iteration of for _, bit := range bits { ... }
PackStep ==
    /\ dpc = "bits"
    /\ bitIdx <= Len(hashBits)
    /\ LET word == IF hashBits[bitIdx] THEN SetBit(currentWord, bitPos) ELSE currentWord
       IN  IF WordFull(bitPos + 1)
           THEN /\ result' = Append(result, word)
                /\ currentWord' = {}
                /\ bitPos' = 0
           ELSE /\ result' = result
                /\ currentWord' = word
                /\ bitPos' = bitPos + 1
    /\ bitIdx' = bitIdx + 1
    /\ UNCHANGED <<width, height, img, gray, err, pixels, hashBits, extHash, encoded, dpc, clusterVars>>

\* bitsToBytes after the loop (the partial word), and
\* NewExtImageHash(hashBytes, DGHash, len(hashBits))
PackFlush ==
    /\ dpc = "bits"
    /\ bitIdx > Len(hashBits)
    /\ result' = IF PartialWord(bitPos) THEN Append(result, currentWord) ELSE result
    /\ extHash' = NewExtImageHash(result', DGHash, Len(hashBits))
    /\ err' = "nil"
    /\ dpc' = "hashed"
    /\ UNCHANGED <<width, height, img, gray, pixels, hashBits, bitIdx, currentWord, bitPos, encoded, clusterVars>>

\* return hash.ToBase64(), nil
DGEncode ==
    /\ dpc = "hashed"
    /\ encoded' = ToBase64(extHash)
    /\ dpc' = "done"
    /\ UNCHANGED <<width, height, img, gray, err, pixels, hashBits, packVars, extHash, clusterVars>>

DGNext ==
    \/ DGGray
    \/ DGResize
    \/ DGBits
    \/ PackStep
    \/ PackFlush
    \/ DGEncode

SpecDG == DGInit /\ [][DGNext]_vars

\* DoubleGradientHashToBase64 on small source images
SpecSrc == SrcInit /\ [][DGNext]_vars

(***************************************************************************)
(* bitsToBytes and ToBase64 on bit sequences of up to MaxBits bits: bit k  *)
(* (0-based) of pattern <<m, r>> is set iff k % m = r.                      *)
(***************************************************************************)
BitPatterns ==
    { <<1, 0>>, <<1, 1>>, <<2, 0>>, <<2, 1>>, <<3, 1>>, <<7, 3>>,
      <<64, 0>>, <<64, 63>>, <<200, 0>> }

PatternBits(n, pat) == [k \in 1..n |-> ((k - 1) % pat[1]) = pat[2]]

PackInit ==
    /\ width = 0
    /\ height = 0
    /\ img = NoImage
    /\ gray = <<>>
    /\ err = "unset"
    /\ pixels = <<>>
    /\ \E n \in 0..MaxBits : \E pat \in BitPatterns : hashBits = PatternBits(n, pat)
    /\ bitIdx = 1
    /\ result = <<>>
    /\ currentWord = {}
    /\ bitPos = 0
    /\ extHash = NoHash
    /\ encoded = <<>>
    /\ dpc = "bits"
    /\ ClusterIdle

PackNext ==
    \/ PackStep
    \/ PackFlush
    \/ DGEncode

SpecPack == PackInit /\ [][PackNext]_vars

(***************************************************************************)
(* Properties of DoubleGradientHash, bitsToBytes and ToBase64              *)
(***************************************************************************)
\* x rounded up to the nearest even integer
RoundUpEven(x) == CHOOSE e \in {x, x + 1} : e % 2 = 0

\* the sample grid of the call in progress
SampleW == RoundUpEven(width) \div 2 + 1

SampleH == RoundUpEven(height) \div 2 + 1

\* intensity at row y, column x (0-based) of the sample grid
Grid(y, x) == pixels[y * SampleW + x + 1]

BitsEmitted == dpc \in {"bits", "hashed", "done"}

Hashed == dpc \in {"hashed", "done"}

\* doubleGradientHashBits has just returned hashBits
JustEmitted == dpc = "bits" /\ bitIdx = 1

\* C7: the grid sampled is sw x sh with sw = width_rounded/2+1 and
\* sh = height_rounded/2+1, and the hash returned has exactly
\* sh*(sw-1) + sw*(sh-1) bits.
C7_BitCount ==
    /\ dpc \notin {"start", "gray"} => Len(pixels) = SampleW * SampleH
    /\ BitsEmitted =>
          Len(hashBits) = SampleH * (SampleW - 1) + SampleW * (SampleH - 1)
    /\ Hashed =>
          /\ extHash.bits = SampleH * (SampleW - 1) + SampleW * (SampleH - 1)
          /\ extHash.kind = DGHash

C7_Witness ==
    /\ dpc = "hashed"
    /\ width = 3
    /\ height = 1
    /\ Len(pixels) = 6
    /\ extHash.bits = 7

\* C8: the horizontal-pass bits come first (rows top to bottom, x = 1..sw-1,
\* bit = grid[y][x] > grid[y][x-1]), then the vertical-pass bits (columns left
\* to right, y = 1..sh-1, bit = grid[y][x] > grid[y-1][x]); the comparisons
\* are strict, so equal neighbours give FALSE.
C8_EmissionOrder ==
    JustEmitted =>
        /\ \A y \in 0..(SampleH - 1) : \A x \in 1..(SampleW - 1) :
              LET bit == hashBits[y * (SampleW - 1) + x]
              IN  /\ bit = (Grid(y, x) > Grid(y, x - 1))
                  /\ Grid(y, x) = Grid(y, x - 1) => bit = FALSE
        /\ \A x \in 0..(SampleW - 1) : \A y \in 1..(SampleH - 1) :
              LET bit == hashBits[SampleH * (SampleW - 1) + x * (SampleH - 1) + y]
              IN  /\ bit = (Grid(y, x) > Grid(y - 1, x))
                  /\ Grid(y, x) = Grid(y - 1, x) => bit = FALSE

C8_Witness ==
    /\ dpc = "bits"
    /\ SampleW = 3
    /\ SampleH = 2
    /\ pixels = <<0, 1, 1, 1, 0, 0>>
    /\ hashBits = <<TRUE, FALSE, FALSE, FALSE, TRUE, FALSE, FALSE>>

\* ceil(a / b)
CeilDiv(a, b) == (a + b - 1) \div b

StreamBit(t) ==
    LET k == 8 * (t \div 8) + (7 - (t % 8))
    IN  IF k < Len(hashBits) /\ hashBits[k + 1] THEN 1 ELSE 0

\* the s-th (0-based) six-bit group of that stream
Sextet(s) ==
    32 * StreamBit(6 * s) + 16 * StreamBit(6 * s + 1) + 8 * StreamBit(6 * s + 2)
    + 4 * StreamBit(6 * s + 3) + 2 * StreamBit(6 * s + 4) + StreamBit(6 * s + 5)

\* C10: ToBase64 encodes exactly the first ceil(bitCount/8) bytes, emitted bit
\* k being bit (k mod 8) of byte (k div 8); the output has no '=' and is
\* ceil(4*ceil(bitCount/8)/3) characters long.
C10_Base64OfMeaningfulBytes ==
    dpc = "done" =>
        LET nbytes == CeilDiv(extHash.bits, 8)
        IN  /\ Len(encoded) = CeilDiv(4 * nbytes, 3)
            /\ \A c \in 1..Len(encoded) :
                  /\ encoded[c] # "="
                  /\ encoded[c] = Alphabet[Sextet(c - 1) + 1]

C10_Witness ==
    /\ dpc = "done"
    /\ extHash.bits = 65
    /\ Len(extHash.hash) = 2
    /\ Len(encoded) = 12
    /\ encoded = <<"A", "Q", "A", "A", "A", "A", "A", "A", "A", "A", "A", "B">>

\* the inner iterations that computed a distance
Calls == {k \in 1..Len(scanned) : scanned[k].outcome # "kind"}

\* record r was consumed before inner iteration k: it had joined a group or
\* had been a seed before the seed of that iteration
ConsumedBefore(r, k) ==
    \/ \E m \in 1..(k - 1) : scanned[m].rec = r /\ scanned[m].outcome = "joined"
    \/ \E t \in 1..Len(seeds) : seeds[t] = r /\ \A u \in 1..t : seeds[u] # scanned[k].seed

\* the scan of seed s has gone past index r
ScanPassed(s, r) == s < i \/ (s = i /\ pc = "inner" /\ r < j)

\* C13: across a clustering run a distance is computed only between a seed
\* and a record later in input order that is unconsumed at that moment (when
\* i is the seed every index below i is consumed); every pair of a seed and a
\* later record unconsumed when the seed's scan reaches it is compared; and
\* no unordered pair of records is compared twice.
C13_EachPairOnce ==
    /\ \A k \in Calls :
          /\ scanned[k].seed \in SeedSet
          /\ scanned[k].rec > scanned[k].seed
          /\ ~ConsumedBefore(scanned[k].rec, k)
    /\ pc = "inner" => \A k \in 1..(i - 1) : processed[k]
    /\ \A s \in SeedSet : \A r \in (s + 1)..N :
          ScanPassed(s, r) =>
             \/ \E k \in Calls : scanned[k].seed = s /\ scanned[k].rec = r
             \/ \E k \in 1..Len(scanned) :
                   scanned[k].rec = r /\ scanned[k].outcome = "joined" /\ scanned[k].seed < s
    /\ \A k1, k2 \in Calls :
          k1 # k2 => {scanned[k1].seed, scanned[k1].rec} # {scanned[k2].seed, scanned[k2].rec}

\* a run of four or more records is over in which one record was compared
\* with two seeds, another joined a group and so was left out of the scans of
\* the later seeds, and fewer distances were computed than there are pairs
C13_Witness ==
    /\ pc = "done"
    /\ N >= 4
    /\ \E k1, k2 \in Calls :
          scanned[k1].rec = scanned[k2].rec /\ scanned[k1].seed # scanned[k2].seed
    /\ \E k \in Calls : \E s \in SeedSet :
          /\ scanned[k].outcome = "joined"
          /\ s > scanned[k].seed
          /\ s < scanned[k].rec
    /\ 2 * Len(scanned) < N * (N - 1)

(***************************************************************************)
(* Properties of the clustering loop on records of mixed kinds             *)
(***************************************************************************)
\* the inner iterations that skipped their record as incompatible
Skips == {k \in 1..Len(scanned) : scanned[k].outcome \in {"kind", "error"}}

\* records a and b can be compared: same IsExt, and Distance has no error
Compatible(a, b) ==
    /\ images[a].IsExt = images[b].IsExt
    /\ ~PairDistance(images[a], images[b]).err

\* the input indices of the members of the group seeded by s, the seed included
GroupOf(s) ==
    UNION { {g[a].Path : a \in 1..Len(g)} : g \in {h \in AllGroups : h[1].Path = s} }

\* C12: a record that is incompatible with the current seed (IsExt differs, or
\* Distance returns an error) is skipped: it is not added to the seed's group
\* and not marked consumed by that seed's scan.  It stays available: once
\* consumed it is a seed itself or a member of the group of a later seed it
\* is compatible with, and at the end of the run it is consumed.
C12_SkippedStaysAvailable ==
    \A k \in Skips :
        LET s == scanned[k].seed
            r == scanned[k].rec
        IN  /\ ~Compatible(s, r)
            /\ r \notin GroupOf(s)
            /\ (pc = "inner" /\ i = s) => ~processed[r]
            /\ processed[r] =>
                   \/ r \in SeedSet
                   \/ \E s2 \in SeedSet : s2 > s /\ Compatible(s2, r) /\ r \in GroupOf(s2)
            /\ pc = "done" => processed[r]

\* a run is over in which one record was skipped for its IsExt by the first
\* seed and then joined the group of a later seed, and another was skipped on
\* a Distance error and became a seed itself
C12_Witness ==
    /\ pc = "done"
    /\ \E k \in Skips :
          /\ scanned[k].outcome = "kind"
          /\ scanned[k].rec \notin SeedSet
          /\ \E s2 \in SeedSet : s2 > scanned[k].seed /\ scanned[k].rec \in GroupOf(s2)
    /\ \E k \in Skips :
          /\ scanned[k].outcome = "error"
          /\ scanned[k].rec \in SeedSet

\* the source image has zero width or zero height
Degenerate(s) == s.dx = 0 \/ s.dy = 0

\* C11: DoubleGradientHash returns an error and no hash when the source image
\* has zero width or zero height, and succeeds for every other image.
C11_ErrorIffDegenerate ==
    Hashed =>
        IF Degenerate(img)
        THEN err # "nil" /\ extHash = NoHash
        ELSE err = "nil" /\ extHash # NoHash

\* the grayscale conversion step has run
GrayDone == dpc \notin {"idle", "start"}

\* C14: after the grayscale conversion step of DoubleGradientHash every pixel
\* inside the bounds of the source image is in the grayscale image at the same
\* coordinates, wherever the bounds rectangle starts.
C14_GrayCopiesAllInBounds ==
    GrayDone => \A c \in Bounds(img) : gray[c] = img.pix[c]

====
